---- MODULE Spec2Model ----
\* Model of verify_logs.py in two parts: the command line entry point (argument
\* check and file resolution, lines 46-67) and check_log_order (lines 5-44),
\* the line-by-line scan that counts backward jumps of the leading timestamp.
\*
\* Text is modelled as sequences of Unicode code points, so that the regular
\* expression, strptime, strip and the encoding of the console are computed
\* character by character.  A line is the text of one line of the file without
\* its line terminator.
EXTENDS Integers, Sequences, FiniteSets, TLC

\* ---------------------------------------------------------------------------
\* Bounds of the model
\* ---------------------------------------------------------------------------
\* longest file, in lines
MaxLines == 3
\* number of directory entries next to the requested path
NumSuffixes == 2
\* creation times range over 1..MaxCtime
MaxCtime == 2

\* ---------------------------------------------------------------------------
\* The lines files are made of
\* ---------------------------------------------------------------------------
\* "2025-01-28 09:03:08 Thread-1"
L0308 ==
    <<50,48,50,53,45,48,49,45,50,56,32,48,57,58,48,51,58,48,56,32,84,104,
      114,101,97,100,45,49>>
\* "2025-01-28 09:03:1X load test", X the fullwidth digit zero U+FF10
L0310 ==
    <<50,48,50,53,45,48,49,45,50,56,32,48,57,58,48,51,58,49,65296,32,108,
      111,97,100,32,116,101,115,116>>
\* "2025-01-28 09:03:05 caf" followed by U+00E9 (e acute) and U+00A0 (no-break
\* space)
L0305 ==
    <<50,48,50,53,45,48,49,45,50,56,32,48,57,58,48,51,58,48,53,32,99,97,102,
      233,160>>
\* "2025-13-01 09:03:07 Thread-3": timestamp shape, month 13
LMonth13 ==
    <<50,48,50,53,45,49,51,45,48,49,32,48,57,58,48,51,58,48,55,32,84,104,
      114,101,97,100,45,51>>
\* "YYYY-13-01 09:03:07 x": month 13, the year 2025 written in the fullwidth
\* digits U+FF12 U+FF10 U+FF12 U+FF15
LWide13 ==
    <<65298,65296,65298,65301,45,49,51,45,48,49,32,48,57,58,48,51,58,48,55,
      32,120>>
\* " 2025-01-28 09:03:01 load test": a timestamp after one leading blank, so
\* not at the very start of the line; the line has "load test"
LIndented ==
    <<32,50,48,50,53,45,48,49,45,50,56,32,48,57,58,48,51,58,48,49,32,108,111,
      97,100,32,116,101,115,116>>
\* "at Thread.run": no timestamp, shorter than one; the line has "Thread"
LThread == <<97,116,32,84,104,114,101,97,100,46,114,117,110>>
\* the empty line, which has neither "load test" nor "Thread"
LEmpty == <<>>

LineCatalog ==
    {L0308, L0310, L0305, LMonth13, LWide13, LIndented, LThread, LEmpty}

RECURSIVE SeqsUpTo(_, _)
SeqsUpTo(S, n) ==
    IF n = 0 THEN {<<>>}
    ELSE LET shorter == SeqsUpTo(S, n - 1)
         IN  shorter \cup {Append(s, x) : s \in shorter, x \in S}

\* every sequence of lines a file may deliver
FileContents == SeqsUpTo(LineCatalog, MaxLines)

\* ---------------------------------------------------------------------------
\* timestamp_pattern, line 10
\* ---------------------------------------------------------------------------
\* the code point of the digit zero of every decimal-digit range of Unicode
\* (general category Nd, Unicode 14): \d of a str pattern matches all of them
DigitZeros ==
    {48, 1632, 1776, 1984, 2406, 2534, 2662, 2790, 2918, 3046, 3174, 3302,
     3430, 3558, 3664, 3792, 3872, 4160, 4240, 6112, 6160, 6470, 6608, 6784,
     6800, 6992, 7088, 7232, 7248, 42528, 43216, 43264, 43472, 43504, 43600,
     44016, 65296, 66720, 68912, 69734, 69872, 69942, 70096, 70384, 70736,
     70864, 71248, 71360, 71472, 71904, 72016, 72784, 73040, 73120, 92768,
     92864, 93008, 120782, 120792, 120802, 120812, 120822, 123200, 123632,
     125264, 130032}

\* the characters \d matches
Digits == UNION {z..(z + 9) : z \in DigitZeros}

\* c is a decimal digit: an ASCII digit, or one of the others, which start at
\* U+0660
IsDigit(c) == (c >= 48 /\ c <= 57) \/ (c >= 1632 /\ c \in Digits)

\* \d{4}-\d{2}-\d{2} \d{2}:\d{2}:\d{2} position by position: 0 stands for \d,
\* every other entry is the code point of the literal character
Pattern ==
    <<0,0,0,0,45,0,0,45,0,0,32,0,0,58,0,0,58,0,0>>

TimestampLen == 19

\* timestamp_pattern.match(line): anchored at the first character
Match(line) ==
    /\ Len(line) >= TimestampLen
    /\ \A i \in 1..TimestampLen :
          IF Pattern[i] = 0 THEN IsDigit(line[i]) ELSE line[i] = Pattern[i]

\* match.group(1)
Group1(line) == SubSeq(line, 1, TimestampLen)

\* ---------------------------------------------------------------------------
\* datetime.strptime(dt_str, "%Y-%m-%d %H:%M:%S"), line 23
\* ---------------------------------------------------------------------------
\* the only element of a set of one element; {F(v) : v \in {e}} is how a value
\* computed once is handed to F
Only(S) == CHOOSE x \in S : TRUE

\* the value of a decimal digit: its offset in its range
DigitVal(c) ==
    IF c >= 48 /\ c <= 57 THEN c - 48
    ELSE c - Only({z \in DigitZeros : z <= c /\ c <= z + 9})

\* int(s[a..b]): the number written by the digits at positions a to b of s
RECURSIVE Num(_, _, _)
Num(s, a, b) ==
    IF b < a THEN 0 ELSE 10 * Num(s, a, b - 1) + DigitVal(s[b])

\* c is one of the ASCII digits lo to hi, the classes [0-5], [1-9], ... of
\* the directives
In(c, lo, hi) == c >= 48 + lo /\ c <= 48 + hi

\* a directive of two characters a, b that a literal follows: strptime matches
\* the string with one regular expression, and of the alternatives of a
\* directive only those of two characters reach the literal.
\* %m is 1[0-2]|0[1-9]|[1-9]
MonthRE(a, b) == (a = 49 /\ In(b, 0, 2)) \/ (a = 48 /\ In(b, 1, 9))
\* %d is 3[0-1]|[1-2]\d|0[1-9]|[1-9]| [1-9]
DayRE(a, b) ==
    \/ a = 51 /\ In(b, 0, 1)
    \/ In(a, 1, 2) /\ IsDigit(b)
    \/ a = 48 /\ In(b, 1, 9)
\* %H is 2[0-3]|[0-1]\d|\d
HourRE(a, b) == (a = 50 /\ In(b, 0, 3)) \/ (In(a, 0, 1) /\ IsDigit(b))
\* %M is [0-5]\d|\d
MinuteRE(a, b) == In(a, 0, 5) /\ IsDigit(b)
\* %S is 6[0-1]|[0-5]\d|\d, the last directive: when neither alternative of
\* two characters matches, \d matches a and b is left unconverted
SecondRE(a, b) == (a = 54 /\ In(b, 0, 1)) \/ (In(a, 0, 5) /\ IsDigit(b))

IsLeap(y) == (y % 4 = 0) /\ ((y % 100 # 0) \/ (y % 400 = 0))

DaysInMonth(y, m) ==
    IF m = 2 THEN (IF IsLeap(y) THEN 29 ELSE 28)
    ELSE IF m \in {4, 6, 9, 11} THEN 30 ELSE 31

\* the value of last_dt before any timestamp was parsed
None == <<>>

\* strptime raised ValueError; quoted is the part of the input the message of
\* the exception repeats
Failure(quoted) == [ok |-> FALSE, dt |-> None, quoted |-> quoted]

\* the six numbers of a string of the timestamp shape
Fields(s) ==
    <<Num(s, 1, 4), Num(s, 6, 7), Num(s, 9, 10),
      Num(s, 12, 13), Num(s, 15, 16), Num(s, 18, 19)>>

\* the datetime of <<year, month, day, hour, minute, second>> of a string the
\* regular expression matched, or the ValueError of a value out of range
\* (year 0, day 30 of February, second 60 or 61)
FromFields(f) ==
    IF /\ f[1] >= 1
       /\ f[3] <= DaysInMonth(f[1], f[2])
       /\ f[6] <= 59
    THEN [ok |-> TRUE, dt |-> f, quoted |-> <<>>]
    ELSE Failure(<<>>)

\* the result of strptime on a string s of the timestamp shape
Strptime(s) ==
    IF ~(/\ MonthRE(s[6], s[7])
         /\ DayRE(s[9], s[10])
         /\ HourRE(s[12], s[13])
         /\ MinuteRE(s[15], s[16]))
    THEN Failure(s)
    ELSE IF ~SecondRE(s[18], s[19])
    THEN Failure(<<s[19]>>)
    ELSE Only({FromFields(f) : f \in {Fields(s)}})

\* a < b on datetimes: lexicographic on the six fields
DtLess(a, b) ==
    \E i \in 1..6 : a[i] < b[i] /\ \A j \in 1..(i - 1) : a[j] = b[j]

\* the truth value of last_dt: None is false, every datetime is true
Truthy(dt) == dt # None

\* line 25:  last_dt and current_dt < last_dt
IsBackwards(last, cur) == Truthy(last) /\ DtLess(cur, last)

\* line 30:  last_dt = current_dt
NewBaseline(last, cur) == cur

\* ValueError and the exception classes derived from it
ValueErrors ==
    {"ValueError", "UnicodeError", "UnicodeEncodeError", "UnicodeDecodeError",
     "UnicodeTranslateError"}

\* line 31:  except ValueError, which catches the derived classes too
Caught(exc) == exc \in ValueErrors

\* ---------------------------------------------------------------------------
\* text helpers
\* ---------------------------------------------------------------------------
\* the characters str.isspace() holds of, which strip() removes
Whitespace ==
    {9, 10, 11, 12, 13, 28, 29, 30, 31, 32, 133, 160, 5760, 8232, 8233, 8239,
     8287, 12288} \cup (8192..8202)

RECURSIVE LStrip(_)
LStrip(s) == IF s # <<>> /\ s[1] \in Whitespace THEN LStrip(Tail(s)) ELSE s

RECURSIVE RStrip(_)
RStrip(s) ==
    IF s # <<>> /\ s[Len(s)] \in Whitespace
    THEN RStrip(SubSeq(s, 1, Len(s) - 1)) ELSE s

\* line.strip()
Strip(s) == RStrip(LStrip(s))

\* "load test"
SubLoadTest ==
    <<108,111,97,100,32,116,101,115,116>>
\* "Thread"
SubThread ==
    <<84,104,114,101,97,100>>

\* sub in s, for a sub that is not empty
Contains(s, sub) ==
    \E i \in 1..(Len(s) - Len(sub) + 1) :
        s[i] = sub[1] /\ SubSeq(s, i, i + Len(sub) - 1) = sub

\* lines 35-37: the content heuristic; its body is pass
Heuristic_counts(line, errs) ==
    IF ~Contains(line, SubLoadTest) /\ ~Contains(line, SubThread)
    THEN errs + 1 ELSE errs
Heuristic(line, errs) ==
    IF ~Contains(line, SubLoadTest) /\ ~Contains(line, SubThread)
    THEN errs ELSE errs

\* ---------------------------------------------------------------------------
\* console output: one record per print call
\* ---------------------------------------------------------------------------
\* the encodings of standard output the model knows
Encodings == {"utf-8", "latin-1", "cp1252", "ascii"}

\* the error handlers of standard output: "strict", the default;
\* "surrogateescape", the default in the C and POSIX locales and in UTF-8
\* mode; "replace" stands for the handlers that never raise (replace, ignore,
\* backslashreplace, xmlcharrefreplace, namereplace)
Handlers == {"strict", "surrogateescape", "replace"}

\* a console is an encoding with an error handler, as in
\* PYTHONIOENCODING=encoding:handler
Consoles == [encoding : Encodings, handler : Handlers]

\* the characters above U+007F that cp1252 encodes, besides U+00A0..U+00FF
Cp1252Extra ==
    {338, 339, 352, 353, 376, 381, 382, 402, 710, 732, 8211, 8212, 8216,
     8217, 8218, 8220, 8221, 8222, 8224, 8225, 8226, 8230, 8240, 8249, 8250,
     8364, 8482}

\* the codec of encoding has a byte sequence for character c
InCharset(encoding, c) ==
    IF encoding = "utf-8" THEN ~(c >= 55296 /\ c <= 57343)
    ELSE IF encoding = "latin-1" THEN c < 256
    ELSE IF encoding = "cp1252"
    THEN c < 128 \/ (c >= 160 /\ c <= 255) \/ c \in Cp1252Extra
    ELSE c < 128

\* the console encodes character c without raising: surrogateescape turns
\* U+DC80..U+DCFF back into the bytes 0x80..0xFF
Encodes(console, c) ==
    \/ InCharset(console.encoding, c)
    \/ console.handler = "replace"
    \/ console.handler = "surrogateescape" /\ c >= 56448 /\ c <= 56575

\* the console encodes every character of text
CanPrint(console, text) == \A i \in DOMAIN text : Encodes(console, text[i])

\* the states of standard output: "ok"; "unflushable", it is buffered and what
\* is written to it cannot be delivered (the reader of the pipe has gone, the
\* device is full), so print succeeds and the flush at interpreter shutdown
\* fails; "unwritable", the same with an unbuffered standard output, where
\* print itself raises OSError
StdoutModes == {"ok", "unflushable", "unwritable"}

\* what standard output in state s may be later: one that is written and
\* delivered may stop being so at any time
Later(s) == IF s = "ok" THEN StdoutModes ELSE {s}

\* the states of standard output at the prints of lines 26, 27 and 32 of one
\* iteration that starts with standard output in state s
StdoutPaths(s) == UNION {{<<s, b, c>> : c \in Later(b)} : b \in Later(s)}

\* standard output stays in state s during the iteration
Steady(s) == <<s, s, s>>

\* print(text): "ok", or the exception it raises.  The text is encoded before
\* it is written.  The texts of the model are far shorter than the buffer of
\* standard output, so a buffered print does not flush.
PrintResult(console, stdout, text) ==
    IF ~CanPrint(console, text) THEN "UnicodeEncodeError"
    ELSE IF stdout = "unwritable" THEN "OSError"
    ELSE "ok"

\* the exit status of the process that ends with status after the print calls
\* printed: when the flush of standard output at shutdown fails the
\* interpreter exits with 120
ExitCode(stdout, printed, status) ==
    IF stdout = "unflushable" /\ printed # <<>> THEN 120 ELSE status

Msg(k, n, p, c, t) == [kind |-> k, num |-> n, prev |-> p, cur |-> c, text |-> t]

UsageMsg          == Msg("usage", 0, None, None, <<>>)
TargetingMsg(p)   == Msg("targeting", p, None, None, <<>>)
NotFoundMsg(p)    == Msg("notfound", p, None, None, <<>>)
CheckingMsg(p)    == Msg("checking", p, None, None, <<>>)
BackwardsMsg(n, p, c) == Msg("backwards", n, p, c, <<>>)
LineMsg(t)        == Msg("line", 0, None, None, t)
ParseErrorMsg(n)  == Msg("parse_error", n, None, None, <<>>)
SuccessMsg        == Msg("success", 0, None, None, <<>>)
FailedMsg(n)      == Msg("failed", n, None, None, <<>>)

\* ---------------------------------------------------------------------------
\* the body of the loop of check_log_order, lines 18-37
\* ---------------------------------------------------------------------------
\* st is [last_dt, line_num, errors, out, crashed, console, stdout26,
\* stdout27, stdout32]: stdoutNN is the state of standard output when the
\* print of line NN is reached; n is the number of the line

\* lines 31-32: exception exc was raised inside the try, its message repeats
\* quoted.  An exception that is caught is printed as a parse error; when that
\* print raises in the handler, nothing catches it.
OnRaise(st, n, exc, quoted) ==
    IF Caught(exc) /\ PrintResult(st.console, st.stdout32, quoted) = "ok"
    THEN [st EXCEPT !.out = Append(st.out, ParseErrorMsg(n))]
    ELSE [st EXCEPT !.crashed = TRUE]

\* lines 27-30: the first message is printed, r is the result of the print of
\* the text of the line.  That print is inside the try: when it raises, lines
\* 28 and 30 are skipped.
OnLinePrinted(st, n, text, dt, r) ==
    IF r = "ok"
    THEN [st EXCEPT !.out = Append(st.out, LineMsg(text)),
                    !.errors = st.errors + 1,
                    !.last_dt = NewBaseline(st.last_dt, dt)]
    ELSE OnRaise(st, n, r, <<>>)

\* lines 26-30: the timestamp went backwards; the first message is made of
\* ASCII characters
OnBackwards(st, n, text, dt) ==
    IF PrintResult(st.console, st.stdout26, <<>>) = "ok"
    THEN OnLinePrinted(
             [st EXCEPT !.out = Append(st.out, BackwardsMsg(n, st.last_dt, dt))],
             n, text, dt, PrintResult(st.console, st.stdout27, text))
    ELSE OnRaise(st, n, PrintResult(st.console, st.stdout26, <<>>), <<>>)

\* lines 25-30: the timestamp parsed to dt
OnParsed(st, n, line, dt) ==
    IF IsBackwards(st.last_dt, dt)
    THEN Only({OnBackwards(st, n, text, dt) : text \in {Strip(line)}})
    ELSE [st EXCEPT !.last_dt = NewBaseline(st.last_dt, dt)]

\* lines 22-32: the outcome r of strptime
OnStrptime(st, n, line, r) ==
    IF r.ok THEN OnParsed(st, n, line, r.dt)
            ELSE OnRaise(st, n, "ValueError", r.quoted)

\* lines 19-32
OnLine(st, n, line) ==
    IF Match(line)
    THEN Only({OnStrptime(st, n, line, r) : r \in {Strptime(Group1(line))}})
    ELSE st

\* lines 18 and 35-37, after is the state lines 19-32 leave
AfterLine(after, n, line) ==
    IF after.crashed
    THEN [after EXCEPT !.line_num = n]
    ELSE [after EXCEPT !.line_num = n,
                       !.errors = Heuristic(line, after.errors)]

\* lines 18-37
ScanStep(st, line) ==
    Only({AfterLine(after, st.line_num + 1, line) :
            after \in {OnLine(st, st.line_num + 1, line)}})

\* lines 39-44
ExitStatus(errs) == IF errs = 0 THEN 0 ELSE 1

Summary(errs) == IF errs = 0 THEN SuccessMsg ELSE FailedMsg(errs)

\* ---------------------------------------------------------------------------
\* the file system seen by the entry point
\* ---------------------------------------------------------------------------
\* path 0 is the requested path P = sys.argv[1]; paths 1..NumSuffixes are other
\* directory entries
Requested == 0
Suffixed == 1..NumSuffixes
Paths == {Requested} \cup Suffixed

\* what a file name holds besides ASCII characters: nothing, U+00E9, the
\* fullwidth digit U+FF10, or U+DCFF, which stands for a byte of the name that
\* is not UTF-8
NameTexts == {<<>>, <<233>>, <<65296>>, <<56575>>}

\* the names check_log_order is studied with
ScanNameTexts == {<<>>, <<56575>>}

\* the kinds of an entry that os.path.exists holds of: a regular file, a
\* regular file the process may not read, a directory
ExistingKinds == {"file", "unreadable", "dir"}

\* An entry is absent, of an existing kind or a dangling symbolic link
\* ("link").  prefixed: the name is P followed by "." and a suffix.  globbed:
\* the name matches P + ".*" read as a glob pattern.  The two agree unless P
\* holds one of the characters * ? [ which glob reads as wildcards.
AbsentEntry ==
    [kind |-> "absent", ctime |-> 0, prefixed |-> FALSE, globbed |-> FALSE,
     name |-> <<>>]

RequestedEntries ==
    {[kind |-> k, ctime |-> 0, prefixed |-> FALSE, globbed |-> FALSE,
      name |-> nm] : k \in {"absent"} \cup ExistingKinds, nm \in NameTexts}

NameForms == {<<TRUE, TRUE>>, <<TRUE, FALSE>>, <<FALSE, TRUE>>}

OtherEntries ==
    {AbsentEntry} \cup
    {[kind |-> k, ctime |-> t, prefixed |-> nf[1], globbed |-> nf[2],
      name |-> nm] :
        k \in ExistingKinds \cup {"link"}, t \in 1..MaxCtime, nf \in NameForms,
        nm \in NameTexts}

\* A creation time that cannot be read is kept at 1: that of a dangling link,
\* and those of all entries when the requested path exists (line 61 is then
\* not reached).  The suffix of a prefixed name is made of ASCII characters.
FileSystems ==
    {f \in [Paths -> RequestedEntries \cup OtherEntries] :
        /\ f[Requested] \in RequestedEntries
        /\ \A p \in Suffixed :
              /\ f[p] \in OtherEntries
              /\ f[p].kind = "link" => f[p].ctime = 1
              /\ f[Requested].kind # "absent" => f[p].ctime <= 1
              /\ f[p].prefixed => f[p].name = f[Requested].name}

\* the file systems in which check_log_order is studied on its own: only the
\* path it is given matters to it
ScanFileSystems ==
    {[p \in Paths |-> IF p = Requested THEN e ELSE AbsentEntry] :
        e \in {r \in RequestedEntries :
                  r.kind # "absent" /\ r.name \in ScanNameTexts}}

\* the consoles check_log_order is studied with: on the text of a decoded
\* line, which has no surrogate, the handler surrogateescape does what strict
\* does, and a handler that never raises what utf-8 does
ScanConsoles ==
    {c \in Consoles : c.handler = "strict" \/
                      (c.encoding = "utf-8" /\ c.handler = "surrogateescape")}

\* os.path.exists(target), line 57
Exists(fsys, p) == fsys[p].kind \in ExistingKinds

\* glob.glob(f"{target}.*"), line 59: the entries whose name matches the
\* pattern, directories and dangling links among them
Glob(fsys) == {p \in Suffixed : fsys[p].kind # "absent" /\ fsys[p].globbed}

\* os.path.getctime raises FileNotFoundError on a dangling link, line 61
CtimeFails(fsys, cands) == \E c \in cands : fsys[c].kind = "link"

\* max(candidates, key=os.path.getctime), line 61: the candidates max may
\* return; the order of the list glob returns decides among equal keys
Latest(fsys, cands) ==
    {c \in cands : \A d \in cands : fsys[c].ctime >= fsys[d].ctime}

\* ---------------------------------------------------------------------------
\* State
\* ---------------------------------------------------------------------------
VARIABLES
    argc,          \* len(sys.argv)
    fs,            \* the file system
    console,       \* the encoding of standard output
    stdout,        \* the state of standard output
    target,        \* the variable target of the entry point
    pc,            \* "main", "check", "scan", "finished", "aborted", "crashed"
    lines,         \* the lines the opened file delivers
    undecodable,   \* after these lines the file holds bytes that are not text
    line_num,      \* check_log_order: line_num
    last_dt,       \* check_log_order: last_dt
    errors,        \* check_log_order: errors
    out,           \* the print calls that returned, in order
    exit_code      \* the exit status, -1 while the process runs

vars == <<argc, fs, console, stdout, target, pc, lines, undecodable,
          line_num, last_dt, errors, out, exit_code>>

envVars == <<argc, fs, console>>

scanVars == <<lines, undecodable, line_num, last_dt, errors>>

\* print of a message that carries the name of path p
PrintName(p) == PrintResult(console, stdout, fs[p].name)

\* print of a message made of ASCII characters
PrintPlain == PrintResult(console, stdout, <<>>)

\* the start of the process
MainInit ==
    /\ argc \in {1, 2}
    /\ fs \in FileSystems
    /\ console \in Consoles
    /\ stdout \in StdoutModes
    /\ target = Requested
    /\ pc = "main"
    /\ lines = <<>>
    /\ undecodable = FALSE
    /\ line_num = 0
    /\ last_dt = None
    /\ errors = 0
    /\ out = <<>>
    /\ exit_code = -1

\* what is at the other end of standard output goes away while the process
\* runs
StdoutBreaks ==
    /\ pc \in {"main", "check", "scan"}
    /\ stdout = "ok"
    /\ stdout' \in {"unflushable", "unwritable"}
    /\ UNCHANGED <<envVars, target, pc, scanVars, out, exit_code>>

\* lines 47-49; an exception of print is not caught: traceback, status 1
Usage ==
    /\ pc = "main"
    /\ argc < 2
    /\ IF PrintPlain = "ok"
       THEN /\ out' = Append(out, UsageMsg)
            /\ pc' = "aborted"
       ELSE /\ out' = out
            /\ pc' = "crashed"
    /\ exit_code' = ExitCode(stdout, out', 1)
    /\ UNCHANGED <<envVars, stdout, target, scanVars>>

\* lines 56-57 and 67, the path exists: target is passed on as given
ResolveDirect ==
    /\ pc = "main"
    /\ ~(argc < 2)
    /\ Exists(fs, Requested)
    /\ pc' = "check"
    /\ UNCHANGED <<envVars, stdout, target, scanVars, out, exit_code>>

\* lines 57-62 and 67.  getctime raises FileNotFoundError on a dangling link,
\* and on a candidate that was removed since line 59 (gone); print raises on a
\* name the console cannot encode and on an unwritable standard output.
\* Nothing catches these: traceback, status 1.
ResolveFallback ==
    /\ pc = "main"
    /\ ~(argc < 2)
    /\ ~Exists(fs, Requested)
    /\ Glob(fs) # {}
    /\ \E gone \in BOOLEAN :
         IF gone \/ CtimeFails(fs, Glob(fs))
         THEN /\ target' = target
              /\ out' = out
              /\ pc' = "crashed"
              /\ exit_code' = ExitCode(stdout, out', 1)
         ELSE \E c \in Latest(fs, Glob(fs)) :
                /\ target' = c
                /\ IF PrintName(c) = "ok"
                   THEN /\ out' = Append(out, TargetingMsg(c))
                        /\ exit_code' = exit_code
                        /\ pc' = "check"
                   ELSE /\ out' = out
                        /\ exit_code' = ExitCode(stdout, out', 1)
                        /\ pc' = "crashed"
    /\ UNCHANGED <<envVars, stdout, scanVars>>

\* lines 63-65
NotFound ==
    /\ pc = "main"
    /\ ~(argc < 2)
    /\ ~Exists(fs, Requested)
    /\ Glob(fs) = {}
    /\ IF PrintName(Requested) = "ok"
       THEN /\ out' = Append(out, NotFoundMsg(Requested))
            /\ pc' = "aborted"
       ELSE /\ out' = out
            /\ pc' = "crashed"
    /\ exit_code' = ExitCode(stdout, out', 1)
    /\ UNCHANGED <<envVars, stdout, target, scanVars>>

\* the entry point up to the call of check_log_order
MainNext ==
    \/ Usage
    \/ ResolveDirect
    \/ ResolveFallback
    \/ NotFound
    \/ StdoutBreaks

MainSpec == MainInit /\ [][MainNext]_vars

\* the call check_log_order(target) with the path as given
ScanInit ==
    /\ argc = 2
    /\ fs \in ScanFileSystems
    /\ console \in ScanConsoles
    /\ stdout \in StdoutModes
    /\ target = Requested
    /\ pc = "check"
    /\ lines = <<>>
    /\ undecodable = FALSE
    /\ line_num = 0
    /\ last_dt = None
    /\ errors = 0
    /\ out = <<>>
    /\ exit_code = -1

\* lines 6-16, open succeeds.  The file delivers the lines of content; when it
\* is undecodable, bytes that are not UTF-8 text follow them.
OpenFile ==
    /\ pc = "check"
    /\ PrintName(target) = "ok"
    /\ fs[target].kind = "file"
    /\ \E content \in FileContents : lines' = content
    /\ undecodable' \in BOOLEAN
    /\ out' = Append(out, CheckingMsg(target))
    /\ last_dt' = None
    /\ line_num' = 0
    /\ errors' = 0
    /\ pc' = "scan"
    /\ UNCHANGED <<envVars, stdout, target, exit_code>>

\* lines 6-16: print raises on line 6, or open raises OSError on line 16: the
\* path is a directory (IsADirectoryError), the process may not read the file
\* (PermissionError), or the file was removed since line 57
\* (FileNotFoundError).  Nothing catches these.
OpenFails ==
    /\ pc = "check"
    /\ out' = IF PrintName(target) = "ok"
              THEN Append(out, CheckingMsg(target)) ELSE out
    /\ exit_code' = ExitCode(stdout, out', 1)
    /\ pc' = "crashed"
    /\ UNCHANGED <<envVars, stdout, target, scanVars>>

\* the variables of the loop with standard output as path gives it at the
\* prints of lines 26, 27 and 32
ScanState(path) ==
    [last_dt |-> last_dt, line_num |-> line_num, errors |-> errors,
     out |-> out, crashed |-> FALSE, console |-> console,
     stdout26 |-> path[1], stdout27 |-> path[2], stdout32 |-> path[3]]

\* the outcomes of one iteration on line: the state it leaves with the state
\* it leaves standard output in.  steady is the outcome when standard output
\* stays as it is; an iteration that neither printed nor raised has called no
\* print, so it has this outcome only.
Iterations(line) ==
    UNION {IF steady.out = out /\ ~steady.crashed
           THEN {<<steady, stdout>>}
           ELSE {<<ScanStep(ScanState(path), line), path[3]>> :
                   path \in StdoutPaths(stdout)} :
             steady \in {ScanStep(ScanState(Steady(stdout)), line)}}

\* lines 17-37, one iteration of the loop.  Standard output may stop being
\* written or delivered between two prints of the iteration.
ProcessLine ==
    /\ pc = "scan"
    /\ line_num < Len(lines)
    /\ \E it \in Iterations(lines[line_num + 1]) :
         \E st \in {it[1]} :
           /\ last_dt' = st.last_dt
           /\ line_num' = st.line_num
           /\ errors' = st.errors
           /\ out' = st.out
           /\ stdout' = it[2]
           /\ pc' = IF st.crashed THEN "crashed" ELSE "scan"
           /\ exit_code' = IF st.crashed THEN ExitCode(it[2], st.out, 1)
                                         ELSE exit_code
    /\ UNCHANGED <<envVars, target, lines, undecodable>>

\* line 17: the file object decodes the file in blocks, and reading a block
\* with bytes that are not text raises UnicodeDecodeError in the loop header,
\* outside the try, at the latest when the lines before those bytes have been
\* delivered
DecodeFails ==
    /\ pc = "scan"
    /\ undecodable
    /\ exit_code' = ExitCode(stdout, out, 1)
    /\ pc' = "crashed"
    /\ UNCHANGED <<envVars, stdout, target, scanVars, out>>

\* lines 39-44
Finish ==
    /\ pc = "scan"
    /\ line_num = Len(lines)
    /\ ~undecodable
    /\ IF PrintPlain = "ok"
       THEN /\ out' = Append(out, Summary(errors))
            /\ exit_code' = ExitCode(stdout, out', ExitStatus(errors))
            /\ pc' = "finished"
       ELSE /\ out' = out
            /\ exit_code' = ExitCode(stdout, out', 1)
            /\ pc' = "crashed"
    /\ UNCHANGED <<envVars, stdout, target, scanVars>>

\* check_log_order
ScanNext ==
    \/ OpenFile
    \/ OpenFails
    \/ ProcessLine
    \/ DecodeFails
    \/ Finish
    \/ StdoutBreaks

ScanSpec == ScanInit /\ [][ScanNext]_vars

\* the interpreter runs the loop and the statements after it whenever they can
\* take a step: nothing suspends the single thread of the scan
FairScanSpec ==
    ScanSpec /\ WF_vars(ProcessLine) /\ WF_vars(DecodeFails) /\ WF_vars(Finish)

TypeOK ==
    /\ argc \in {1, 2}
    /\ fs \in FileSystems
    /\ console \in Consoles
    /\ stdout \in StdoutModes
    /\ target \in Paths
    /\ pc \in {"main", "check", "scan", "finished", "aborted", "crashed"}
    /\ lines \in FileContents
    /\ undecodable \in BOOLEAN
    /\ line_num \in 0..Len(lines)
    /\ errors \in 0..MaxLines
    /\ exit_code \in {-1, 0, 1, 120}

\* ---------------------------------------------------------------------------
\* What the properties are stated in: the timestamps of a file, read
\* independently of the scan
\* ---------------------------------------------------------------------------
HasMsg(k) == \E i \in DOMAIN out : out[i].kind = k
CountMsg(k) == Cardinality({i \in DOMAIN out : out[i].kind = k})

SpecMonthDays == <<31, 28, 31, 30, 31, 30, 31, 31, 30, 31, 30, 31>>

SpecFields(line) ==
    <<Num(line, 1, 4), Num(line, 6, 7), Num(line, 9, 10),
      Num(line, 12, 13), Num(line, 15, 16), Num(line, 18, 19)>>

\* the line starts with a timestamp that is a date and time of the calendar
SpecValid(line) ==
    /\ Match(line)
    /\ LET f == SpecFields(line)
       IN  /\ f[1] >= 1
           /\ f[2] >= 1 /\ f[2] <= 12
           /\ f[3] >= 1
           /\ f[3] <= SpecMonthDays[f[2]] + (IF f[2] = 2 /\ IsLeap(f[1]) THEN 1 ELSE 0)
           /\ f[4] <= 23 /\ f[5] <= 59 /\ f[6] <= 59

\* the line has the timestamp shape but names no date and time
SpecMalformed(line) == Match(line) /\ ~SpecValid(line)

\* the timestamps of the timestamped lines, in file order
RECURSIVE SpecTimestamps(_)
SpecTimestamps(ls) ==
    IF ls = <<>> THEN <<>>
    ELSE (IF SpecValid(Head(ls)) THEN <<SpecFields(Head(ls))>> ELSE <<>>)
         \o SpecTimestamps(Tail(ls))

\* rank of the date and rank of the time of day of a timestamp
DayRank(dt) == (dt[1] * 13 + dt[2]) * 32 + dt[3]
SecRank(dt) == (dt[4] * 60 + dt[5]) * 60 + dt[6]

\* a is strictly earlier than b
Earlier(a, b) ==
    \/ DayRank(a) < DayRank(b)
    \/ DayRank(a) = DayRank(b) /\ SecRank(a) < SecRank(b)

\* the number of timestamps strictly earlier than their predecessor
Decreases(ts) == Cardinality({i \in 2..Len(ts) : Earlier(ts[i], ts[i - 1])})

Processed == SubSeq(lines, 1, line_num)

\* the file was opened
Opened == pc \in {"scan", "finished"} \/ (pc = "crashed" /\ lines # <<>>)

\* the scan of a whole file, as a fold of the loop body
RECURSIVE RunScan(_, _)
RunScan(st, ls) ==
    IF ls = <<>> \/ st.crashed THEN st
    ELSE RunScan(ScanStep(st, Head(ls)), Tail(ls))

ScanStart == [last_dt |-> None, line_num |-> 0, errors |-> 0, out |-> <<>>,
              crashed |-> FALSE, console |-> console, stdout26 |-> stdout,
              stdout27 |-> stdout, stdout32 |-> stdout]

\* ls without the lines that have no timestamp at their very start
RECURSIVE WithoutUnstamped(_)
WithoutUnstamped(ls) ==
    IF ls = <<>> THEN <<>>
    ELSE (IF Match(Head(ls)) THEN <<Head(ls)>> ELSE <<>>)
         \o WithoutUnstamped(Tail(ls))

\* the entries that exist under a name made of the requested path, "." and a
\* suffix
SpecCandidates ==
    {p \in Suffixed : fs[p].kind \in ExistingKinds /\ fs[p].prefixed}

\* the requested path is a regular file, readable or not
SpecRegular == fs[Requested].kind \in {"file", "unreadable"}

\* ---------------------------------------------------------------------------
\* Properties
\* ---------------------------------------------------------------------------

\* C1: at every point of the scan the violation counter, and the number of
\* violations printed, equal the number of timestamped lines read so far whose
\* timestamp is strictly earlier than that of the preceding timestamped line;
\* when the file has such a line the process exits with status 1.
C1_ViolationCount ==
    /\ pc \in {"scan", "finished"} =>
          /\ errors = Decreases(SpecTimestamps(Processed))
          /\ CountMsg("backwards") = errors
    /\ (pc = "finished" /\ Decreases(SpecTimestamps(lines)) > 0) => exit_code = 1

\* C2: a file whose timestamped lines are non-decreasing, equal neighbours
\* allowed, ends with zero violations, the success summary and exit status 0,
\* whatever other lines stand between them.
C2_OrderedFileSucceeds ==
    (/\ Opened
     /\ pc \in {"finished", "crashed"}
     /\ LET ts == SpecTimestamps(lines)
        IN  \A i \in 2..Len(ts) : ~Earlier(ts[i], ts[i - 1]))
    => /\ errors = 0
       /\ exit_code = 0
       /\ ~HasMsg("backwards")
       /\ out[Len(out)] = SuccessMsg

\* C3: after the scan the exit status is 0 exactly when the violation counter
\* is zero and 1 otherwise; parse errors do not change it, so a file whose
\* only anomalies are parse errors exits with 0.
C3_ExitStatus ==
    pc = "finished" =>
        /\ exit_code = 0 <=> errors = 0
        /\ exit_code = 1 <=> errors # 0
        /\ (HasMsg("parse_error") /\ ~HasMsg("backwards")) => exit_code = 0

\* C4: with no file argument, or with a path that does not exist and next to
\* which no "<path>.<suffix>" exists, the process only ever ends with exit
\* status 1 and check_log_order is never called: no file is opened, no line is
\* processed and no summary is printed.
C4_NoFileAborts ==
    (argc < 2 \/ (fs[Requested].kind = "absent" /\ SpecCandidates = {})) =>
        /\ pc \in {"main", "aborted", "crashed"}
        /\ pc # "main" => exit_code = 1
        /\ pc = "main" => exit_code = -1
        /\ target = Requested
        /\ ~HasMsg("targeting")

\* C5: when the requested path does not exist and some "<path>.<suffix>"
\* exists, the path handed to the scan is such a candidate whose creation time
\* is at least that of every candidate, and the "Targeting latest log file"
\* message is printed, once and naming that path, in exactly this case.
C5_LatestCandidate ==
    pc # "main" =>
        LET fallback == /\ ~(argc < 2)
                        /\ fs[Requested].kind = "absent"
                        /\ SpecCandidates # {}
        IN  /\ fallback =>
                /\ pc = "check"
                /\ target \in SpecCandidates
                /\ \A d \in SpecCandidates : fs[target].ctime >= fs[d].ctime
                /\ out = <<TargetingMsg(target)>>
            /\ HasMsg("targeting") <=> fallback

\* C6: the requested path is used unchanged, without fallback message, when it
\* is a regular file, and in every other case, a directory included, it is not
\* handed on as given: the resolver takes the fallback branch.
C6_RegularFileOrFallback ==
    (pc # "main" /\ ~(argc < 2)) =>
        IF SpecRegular
        THEN pc = "check" /\ target = Requested /\ out = <<>>
        ELSE ~(pc = "check" /\ target = Requested)

\* C7: after a line whose timestamp was matched and parsed, the baseline is
\* that line's timestamp, also when the line was a violation; so timestamps
\* 10, 5, 7 (here :10, :05, :08) give one violation, not two.
C7_BaselineFollows ==
    /\ (pc \in {"scan", "finished"} /\ line_num > 0 /\ SpecValid(lines[line_num]))
          => last_dt = SpecFields(lines[line_num])
    /\ (pc = "finished" /\ lines = <<L0310, L0305, L0308>>) => errors = 1

\* C8: processing a line of the timestamp shape that names no valid date and
\* time prints one parse-error diagnostic with that line's number, changes
\* neither the baseline nor the violation counter, and the scan goes on.
C8_ParseErrorFrame ==
    [][(/\ pc = "scan"
        /\ line_num < Len(lines)
        /\ SpecMalformed(lines[line_num + 1])
        /\ line_num' = line_num + 1)
        => /\ out' = Append(out, ParseErrorMsg(line_num + 1))
           /\ last_dt' = last_dt
           /\ errors' = errors
           /\ pc' = "scan"]_vars

\* C9: in the scan, before a line with no timestamp at its very start, every
\* step that changes the line counter, the baseline, the violation counter or
\* the output advances the line counter by one and changes nothing else of
\* them, prints nothing and does not end the process, whether or not the line
\* contains "load test" or "Thread"; the file without such lines has the same
\* number of violations and the same exit status.
C9_UnstampedLineFrame ==
    /\ [][(/\ pc = "scan"
           /\ line_num < Len(lines)
           /\ ~Match(lines[line_num + 1]))
            => /\ line_num' = line_num + 1
               /\ UNCHANGED <<last_dt, errors, out, pc, exit_code>>
          ]_<<line_num, last_dt, errors, out>>
    /\ [](pc = "finished" =>
            LET r == RunScan(ScanStart, WithoutUnstamped(lines))
            IN  /\ ~r.crashed
                /\ errors = r.errors
                /\ exit_code = ExitCode(stdout, out, ExitStatus(r.errors)))

\* after a timestamp, a line with "load test" and a line with "Thread", both
\* without a timestamp at their start: baseline, counter and output are those after
\* the first line
C9_Witness ==
    /\ pc = "scan"
    /\ line_num = 3
    /\ lines = <<L0310, LIndented, LThread>>
    /\ last_dt = <<2025, 1, 28, 9, 3, 10>>
    /\ errors = 0
    /\ out = <<CheckingMsg(target)>>

\* C10: once the file is open the scan processes every line once, in order,
\* and never stops early: a step of the scan either takes the next line or,
\* after the last line, prints the summary; the scan does not go on forever, so
\* it is left, and it is left only by the summary; the process ends with
\* exactly one summary, success with status 0 or failure with status 1.
C10_ScanCompletes ==
    /\ <>[](pc # "scan")
    /\ [][pc = "scan" =>
            \/ line_num < Len(lines) /\ pc' = "scan" /\ line_num' = line_num + 1
                 /\ lines' = lines
            \/ line_num = Len(lines) /\ pc' = "finished" /\ line_num' = line_num
                 /\ lines' = lines]_<<pc, line_num, lines>>
    /\ [](pc = "finished" =>
            /\ line_num = Len(lines)
            /\ CountMsg("success") + CountMsg("failed") = 1
            /\ \/ out[Len(out)] = SuccessMsg /\ exit_code = 0
               \/ out[Len(out)].kind = "failed" /\ exit_code = 1)
====
